---------------------------- MODULE Spec2Model ----------------------------
(***************************************************************************)
(* A model of src/utils/json.js: the tokenizer and value builder of        *)
(* jsonRawDecode, the streaming driver jsonDecode, and decycle.            *)
(*                                                                         *)
(* A JavaScript string is a sequence of one-character strings.  A          *)
(* JavaScript value is a record [t, n, s]: t is the type tag, n the number *)
(* (or the heap address when t = "ref", or 1/0 for true/false), s the      *)
(* characters of a string.  Objects and arrays live in a heap (a sequence   *)
(* of nodes addressed by position), so that identity and aliasing are       *)
(* those of the program.                                                    *)
(***************************************************************************)
EXTENDS Integers, Sequences, FiniteSets, TLC

(***************************************************************************)
(* Characters                                                              *)
(***************************************************************************)
Digits == {"0", "1", "2", "3", "4", "5", "6", "7", "8", "9"}

HexDigits == Digits \cup {"a", "b", "c", "d", "e", "f", "A", "B", "C", "D", "E", "F"}

Letters ==
  {"a", "b", "c", "d", "e", "f", "g", "h", "i", "j", "k", "l", "m", "n", "o",
   "p", "q", "r", "s", "t", "u", "v", "w", "x", "y", "z",
   "A", "B", "C", "D", "E", "F", "G", "H", "I", "J", "K", "L", "M", "N", "O",
   "P", "Q", "R", "S", "T", "U", "V", "W", "X", "Y", "Z"}

\* The characters \b of a regular expression takes for word characters.
WordChars == Letters \cup Digits \cup {"_"}

\* Characters the class [^\0-\x08\x0a-\x1f"\\] of oneChar excludes (the
\* control characters are represented by line feed and carriage return).
StringExcluded == {"\"", "\\", "\n", "\r"}

\* The characters that may follow a backslash in oneChar, besides u.
SimpleEscapes == {"\"", "/", "\\", "b", "f", "n", "r", "t"}

DigitVal(c) ==
  CASE c = "0" -> 0 [] c = "1" -> 1 [] c = "2" -> 2 [] c = "3" -> 3
    [] c = "4" -> 4 [] c = "5" -> 5 [] c = "6" -> 6 [] c = "7" -> 7
    [] c = "8" -> 8 [] OTHER -> 9

DigitChar(d) ==
  CASE d = 0 -> "0" [] d = 1 -> "1" [] d = 2 -> "2" [] d = 3 -> "3"
    [] d = 4 -> "4" [] d = 5 -> "5" [] d = 6 -> "6" [] d = 7 -> "7"
    [] d = 8 -> "8" [] OTHER -> "9"

Max(a, b) == IF a >= b THEN a ELSE b

\* s.substr(i): the characters of s from the 0-based offset i on.
Substr(s, i) == IF i >= Len(s) THEN << >> ELSE SubSeq(s, i + 1, Len(s))

\* Whether the characters of lit stand in s at the 1-based position p.
LitAt(s, p, lit) ==
  /\ p + Len(lit) - 1 <= Len(s)
  /\ SubSeq(s, p, p + Len(lit) - 1) = lit

(***************************************************************************)
(* The token regular expression jsonToken                                  *)
(* Positions are 1-based; an end is the position after the match; 0 is     *)
(* "no match here".                                                        *)
(***************************************************************************)
IsWordAt(s, i) == i >= 1 /\ i <= Len(s) /\ s[i] \in WordChars

IsDigitAt(s, i) == i >= 1 /\ i <= Len(s) /\ s[i] \in Digits

\* \b between the characters at i - 1 and i.
Boundary(s, i) == IsWordAt(s, i - 1) # IsWordAt(s, i)

RECURSIVE DigitRunEnd(_, _)
\* [0-9]*, greedy, from position i.
DigitRunEnd(s, i) == IF IsDigitAt(s, i) THEN DigitRunEnd(s, i + 1) ELSE i

\* (?:\.[0-9]+)? from position i.
FracEnd(s, i) ==
  IF i <= Len(s) /\ s[i] = "." /\ IsDigitAt(s, i + 1)
  THEN DigitRunEnd(s, i + 1) ELSE i

\* (?:[eE][+-]?[0-9]+)? from position i.
ExpEnd(s, i) ==
  IF i <= Len(s) /\ s[i] \in {"e", "E"}
  THEN LET j == IF i + 1 <= Len(s) /\ s[i + 1] \in {"+", "-"} THEN i + 2 ELSE i + 1
       IN IF IsDigitAt(s, j) THEN DigitRunEnd(s, j) ELSE i
  ELSE i

\* -?\b(?:0|[1-9][0-9]*)(?:\.[0-9]+)?(?:[eE][+-]?[0-9]+)?\b at position p.
\* A shortened digit run is followed by a digit, where neither a later part
\* nor \b can match, so backtracking only drops the optional parts.
\* The first of the ends a, b, c, d, in the order the expression tries them,
\* at which the closing \b holds.
FirstAtBoundary(s, a, b, c, d) ==
  CASE Boundary(s, a) -> a
    [] Boundary(s, b) -> b
    [] Boundary(s, c) -> c
    [] Boundary(s, d) -> d
    [] OTHER -> 0

\* The number whose integer part ends at ie and whose fraction ends at fe:
\* with fraction and exponent, with the fraction, with the exponent, bare.
NumberTail(s, ie, fe) == FirstAtBoundary(s, ExpEnd(s, fe), fe, ExpEnd(s, ie), ie)

\* \b(?:0|[1-9][0-9]*)... with the first digit at q.
NumberFrom(s, q) ==
  IF ~IsDigitAt(s, q) \/ ~Boundary(s, q) THEN 0
  ELSE IF s[q] = "0" THEN NumberTail(s, q + 1, FracEnd(s, q + 1))
  ELSE NumberTail(s, DigitRunEnd(s, q), FracEnd(s, DigitRunEnd(s, q)))

NumberEnd(s, p) ==
  NumberFrom(s, IF p <= Len(s) /\ s[p] = "-" THEN p + 1 ELSE p)

RECURSIVE StringBodyEnd(_, _)
\* oneChar*" from position i (after the opening quote).
StringBodyEnd(s, i) ==
  IF i > Len(s) THEN 0
  ELSE IF s[i] = "\"" THEN i + 1
  ELSE IF s[i] = "\\"
       THEN IF i + 1 <= Len(s) /\ s[i + 1] \in SimpleEscapes
            THEN StringBodyEnd(s, i + 2)
            ELSE IF /\ i + 5 <= Len(s)
                    /\ s[i + 1] = "u"
                    /\ \A k \in 2..5 : s[i + k] \in HexDigits
                 THEN StringBodyEnd(s, i + 6)
                 ELSE 0
  ELSE IF s[i] \in StringExcluded THEN 0
  ELSE StringBodyEnd(s, i + 1)

StringEnd(s, p) ==
  IF p <= Len(s) /\ s[p] = "\"" THEN StringBodyEnd(s, p + 1) ELSE 0

\* The last two alternatives: the number ending at ne if there is one, else
\* a string.
NumberOrString(s, p, ne) == IF ne # 0 THEN ne ELSE StringEnd(s, p)

\* One attempt of jsonToken at position p: the alternatives in their order.
TokenEnd(s, p) ==
  CASE LitAt(s, p, <<"f", "a", "l", "s", "e">>) -> p + 5
    [] LitAt(s, p, <<"t", "r", "u", "e">>) -> p + 4
    [] LitAt(s, p, <<"n", "u", "l", "l">>) -> p + 4
    [] p <= Len(s) /\ s[p] \in {"{", "}", "[", "]"} -> p + 1
    [] OTHER -> NumberOrString(s, p, NumberEnd(s, p))

RECURSIVE TokensFrom(_, _)
\* The attempt at p ended at e: a token (its text and its 0-based index in
\* s) and the search goes on at e, or no token and it goes on at p + 1.
TokenOrSkip(s, p, e) ==
  IF e = 0 THEN TokensFrom(s, p + 1)
  ELSE <<[text |-> SubSeq(s, p, e - 1), index |-> p - 1]>> \o TokensFrom(s, e)

\* re.exec in a loop: each match is searched from the end of the one before.
TokensFrom(s, p) ==
  IF p > Len(s) THEN << >> ELSE TokenOrSkip(s, p, TokenEnd(s, p))

tokenize(s) == TokensFrom(s, 1)

(***************************************************************************)
(* Values and the heap                                                     *)
(***************************************************************************)
Undefined == [t |-> "undefined", n |-> 0, s |-> << >>]

Null == [t |-> "null", n |-> 0, s |-> << >>]

Bool(b) == [t |-> "boolean", n |-> IF b THEN 1 ELSE 0, s |-> << >>]

Num(n) == [t |-> "number", n |-> n, s |-> << >>]

\* A number whose literal has a fraction or an exponent keeps its literal.
NumLit(lit) == [t |-> "number", n |-> 0, s |-> lit]

Str(s) == [t |-> "string", n |-> 0, s |-> s]

\* A reference to the object or array at heap address a.
Ref(a) == [t |-> "object", n |-> a, s |-> << >>]

IsRef(v) == v.t = "object"

\* An object or array: its own properties in insertion order, and for an
\* array its length.
NewObject == [isArr |-> FALSE, keys |-> << >>, vals |-> << >>, length |-> 0]

NewArray == [isArr |-> TRUE, keys |-> << >>, vals |-> << >>, length |-> 0]

RECURSIVE NatToStr(_)
NatToStr(n) ==
  IF n < 10 THEN <<DigitChar(n)>>
  ELSE NatToStr(n \div 10) \o <<DigitChar(n % 10)>>

RECURSIVE StrToNat(_)
StrToNat(k) ==
  IF k = << >> THEN 0
  ELSE 10 * StrToNat(SubSeq(k, 1, Len(k) - 1)) + DigitVal(k[Len(k)])

\* Whether the property name k is an array index.
IsIndexKey(k) ==
  /\ k # << >>
  /\ \A i \in 1..Len(k) : k[i] \in Digits
  /\ (k[1] = "0" => Len(k) = 1)

KeyPos(node, k) ==
  IF \E i \in 1..Len(node.keys) : node.keys[i] = k
  THEN CHOOSE i \in 1..Len(node.keys) : node.keys[i] = k
  ELSE 0

HasProp(node, k) == KeyPos(node, k) # 0

\* node[k]
GetProp(node, k) == IF HasProp(node, k) THEN node.vals[KeyPos(node, k)] ELSE Undefined

\* node[k] = v
SetProp(node, k, v) ==
  LET p == KeyPos(node, k)
      len == IF node.isArr /\ IsIndexKey(k)
             THEN Max(node.length, StrToNat(k) + 1) ELSE node.length
  IN IF p # 0
     THEN [node EXCEPT !.vals[p] = v]
     ELSE [node EXCEPT !.keys = Append(@, k), !.vals = Append(@, v), !.length = len]

RECURSIVE JoinElems(_, _, _, _)
RECURSIVE ToStr(_, _, _)
\* String(v), as the conversion of a value to a property name does it.
ToStr(heap, v, fuel) ==
  CASE v.t = "undefined" -> <<"u", "n", "d", "e", "f", "i", "n", "e", "d">>
    [] v.t = "null" -> <<"n", "u", "l", "l">>
    [] v.t = "boolean" -> IF v.n = 1 THEN <<"t", "r", "u", "e">>
                                      ELSE <<"f", "a", "l", "s", "e">>
    [] v.t = "number" -> IF v.s # << >> THEN v.s
                         ELSE IF v.n < 0 THEN <<"-">> \o NatToStr(0 - v.n)
                         ELSE NatToStr(v.n)
    [] v.t = "string" -> v.s
    [] OTHER -> IF heap[v.n].isArr /\ fuel > 0
                THEN JoinElems(heap, heap[v.n], 0, fuel - 1)
                ELSE <<"[", "o", "b", "j", "e", "c", "t", " ",
                       "O", "b", "j", "e", "c", "t", "]">>

\* Array.prototype.join of the elements from index i on.
JoinElems(heap, node, i, fuel) ==
  IF i >= node.length THEN << >>
  ELSE LET e == GetProp(node, NatToStr(i))
           one == IF e.t \in {"undefined", "null"} THEN << >> ELSE ToStr(heap, e, fuel)
       IN (IF i > 0 THEN <<",">> ELSE << >>) \o one \o JoinElems(heap, node, i + 1, fuel)

(***************************************************************************)
(* jsonRawDecode: the value builder                                        *)
(***************************************************************************)
\* +tok for a number token.
ToNumber(tok) ==
  LET neg == tok[1] = "-"
      body == IF neg THEN Tail(tok) ELSE tok
  IN IF \A i \in 1..Len(body) : body[i] \in Digits
     THEN Num(IF neg THEN 0 - StrToNat(body) ELSE StrToNat(body))
     ELSE NumLit(tok)

\* unescapeOne: the character an escape sequence stands for.  Backspace, and
\* the code unit \uXXXX names, are kept by name.
UnescapeOne(ch, hex) ==
  CASE ch = "b" -> "<backspace>"
    [] ch = "f" -> "\f"
    [] ch = "n" -> "\n"
    [] ch = "r" -> "\r"
    [] ch = "t" -> "\t"
    [] ch = "u" -> hex
    [] OTHER -> ch

RECURSIVE Unescape(_)
\* tok.replace(escapeSequence, unescapeOne)
Unescape(s) ==
  IF s = << >> THEN << >>
  ELSE IF s[1] = "\\" /\ Len(s) >= 2
       THEN IF s[2] = "u" /\ Len(s) >= 6
            THEN <<UnescapeOne("u", "u+" \o s[3] \o s[4] \o s[5] \o s[6])>>
                 \o Unescape(SubSeq(s, 7, Len(s)))
            ELSE <<UnescapeOne(s[2], "")>> \o Unescape(SubSeq(s, 3, Len(s)))
       ELSE <<s[1]>> \o Unescape(Tail(s))

\* The text of a string token without its quotes, escapes decoded.
StringValue(tok) ==
  LET inner == SubSeq(tok, 2, Len(tok) - 1)
  IN IF \E i \in 1..Len(inner) : inner[i] = "\\" THEN Unescape(inner) ELSE inner

\* The pending key: unset (void 0), or a string; EMPTY_STRING is a set key
\* with no characters.
NoKey == [set |-> FALSE, s |-> << >>]

\* cont.length, as the name of the property it selects in cont[key || cont.length].
\* An object has no length of its own but may hold a property of that name.
LengthName(heap, cont) ==
  IF heap[cont].isArr THEN NatToStr(heap[cont].length)
  ELSE ToStr(heap, GetProp(heap[cont], <<"l", "e", "n", "g", "t", "h">>), 2)

\* cont[key || cont.length] = v; key = void 0
AssignNext(b, v) ==
  [b EXCEPT !.heap[b.stack[1]] =
              SetProp(@, IF b.key.set THEN b.key.s ELSE LengthName(b.heap, b.stack[1]), v),
            !.key = NoKey]

\* if (cont == undefined) { index = toks[i].index; break; }
PastRoot(b, tok) == [b EXCEPT !.index = tok.index]

\* case 0x22: a string token is the pending key of an object, or a value.
StringToken(b, tok) ==
  IF b.stack = << >> THEN PastRoot(b, tok)
  ELSE IF ~b.key.set /\ ~b.heap[b.stack[1]].isArr
       THEN [b EXCEPT !.key = [set |-> TRUE, s |-> StringValue(tok.text)]]
       ELSE [b EXCEPT !.heap[b.stack[1]] =
                        SetProp(@, IF b.key.set THEN b.key.s
                                   ELSE NatToStr(b.heap[b.stack[1]].length),
                                Str(StringValue(tok.text))),
                      !.key = NoKey]

\* default, case 0x66, 0x6e, 0x74: a number, false, null or true.
ScalarToken(b, tok, v) ==
  IF b.stack = << >> THEN PastRoot(b, tok) ELSE AssignNext(b, v)

\* case 0x5b, 0x7b: stack.unshift(cont[key || cont.length] = [] or {})
OpenToken(b, tok, node) ==
  IF b.stack = << >> THEN PastRoot(b, tok)
  ELSE [AssignNext([b EXCEPT !.heap = Append(@, node)], Ref(Len(b.heap) + 1))
          EXCEPT !.stack = <<Len(b.heap) + 1>> \o @]

\* case 0x5d, 0x7d: stack.shift()
CloseToken(b) == [b EXCEPT !.stack = IF @ = << >> THEN << >> ELSE Tail(@)]

\* The switch on the first character of the token.
\* The value a token other than a string or a bracket stands for.
ScalarValue(text) ==
  CASE text[1] = "f" -> Bool(FALSE)
    [] text[1] = "n" -> Null
    [] text[1] = "t" -> Bool(TRUE)
    [] OTHER -> ToNumber(text)

\* The switch on the first character of the token.
BuildStep(b, tok) ==
  CASE tok.text[1] = "\"" -> StringToken(b, tok)
    [] tok.text[1] \in {"[", "{"} ->
         OpenToken(b, tok, IF tok.text[1] = "[" THEN NewArray ELSE NewObject)
    [] tok.text[1] \in {"]", "}"} -> CloseToken(b)
    [] OTHER -> ScalarToken(b, tok, ScalarValue(tok.text))

RECURSIVE BuildLoop(_, _, _)
\* if (index >= 0) break; else the next token.
BuildNext(nb, toks, i) == IF nb.index >= 0 THEN nb ELSE BuildLoop(nb, toks, i + 1)

\* for (i = ...; i < n; ++i) { switch (...) ... }
BuildLoop(b, toks, i) ==
  IF i > Len(toks) THEN b ELSE BuildNext(BuildStep(b, toks[i]), toks, i)

\* The result [undefined, 0] of a text without a token.
NoToken(heap) == [isPair |-> TRUE, value |-> Undefined, index |-> 0, heap |-> heap]

\* The result of "return undefined, 0": the comma operator yields the number 0.
Incomplete(heap) == [isPair |-> FALSE, value |-> Undefined, index |-> 0, heap |-> heap]

\* A slip: the wrapper array is returned instead of its element.
UnwrapKeepsWrapper(heap, result) == Ref(result)

\* result = result[0]: the top-level primitive out of its wrapper array.
Unwrap(heap, result) == GetProp(heap[result], <<"0">>)

\* The builder before the first token of the loop: the stack holds the
\* result, an object, an array, or the array that wraps a top-level primitive.
BuildStart(heap, first) ==
  [heap |-> Append(heap, IF first = <<"{">> THEN NewObject ELSE NewArray),
   stack |-> <<Len(heap) + 1>>,
   key |-> NoKey,
   index |-> -1]

\* After the loop: incomplete if a container is still open (for a top-level
\* primitive, if the stack is not the wrapper alone); else the value and the
\* index, json.length when no token followed the value.
BuildEnd(json, topLevelPrimitive, result, b) ==
  IF Len(b.stack) # (IF topLevelPrimitive THEN 1 ELSE 0) THEN Incomplete(b.heap)
  ELSE [isPair |-> TRUE,
        value |-> IF topLevelPrimitive THEN Unwrap(b.heap, result) ELSE Ref(result),
        index |-> IF b.index = -1 THEN Len(json) ELSE b.index,
        heap |-> b.heap]

\* Whether the first token opens neither an object nor an array.
TopLevelPrimitive(toks) == toks[1].text # <<"{">> /\ toks[1].text # <<"[">>

\* The body of jsonRawDecode once the text is split into tokens.
DecodeTokens(heap, json, toks) ==
  IF toks = << >> THEN NoToken(heap)
  ELSE BuildEnd(json, TopLevelPrimitive(toks), Len(heap) + 1,
                BuildLoop(BuildStart(heap, toks[1].text), toks,
                          IF TopLevelPrimitive(toks) THEN 1 ELSE 2))

\* jsonRawDecode(json) without a reviver, run on the heap given: what it
\* returns (a pair [value, index], or the number 0) and the heap after it.
jsonRawDecode(heap, json) == DecodeTokens(heap, json, tokenize(json))

(***************************************************************************)
(* Reference JSON documents                                                *)
(* A document is a tree [t, n, s, keys, kids]; its text is Stringify of    *)
(* the tree, and DeepEqual compares a decoded value with the tree.         *)
(***************************************************************************)
TNull == [t |-> "null", n |-> 0, s |-> << >>, keys |-> << >>, kids |-> << >>]

TBool(b) == [t |-> "boolean", n |-> IF b THEN 1 ELSE 0, s |-> << >>,
             keys |-> << >>, kids |-> << >>]

TNum(n) == [t |-> "number", n |-> n, s |-> << >>, keys |-> << >>, kids |-> << >>]

TStr(s) == [t |-> "string", n |-> 0, s |-> s, keys |-> << >>, kids |-> << >>]

TArr(kids) == [t |-> "array", n |-> 0, s |-> << >>, keys |-> << >>, kids |-> kids]

TObj(keys, kids) == [t |-> "object", n |-> 0, s |-> << >>, keys |-> keys, kids |-> kids]

IsScalarTree(tree) == tree.t \notin {"array", "object"}

RECURSIVE Stringify(_)
RECURSIVE StringifyKids(_, _)
\* The JSON text of a tree, with no white space (strings here need no escape).
Stringify(tree) ==
  CASE tree.t = "null" -> <<"n", "u", "l", "l">>
    [] tree.t = "boolean" -> IF tree.n = 1 THEN <<"t", "r", "u", "e">>
                                           ELSE <<"f", "a", "l", "s", "e">>
    [] tree.t = "number" -> NatToStr(tree.n)
    [] tree.t = "string" -> <<"\"">> \o tree.s \o <<"\"">>
    [] tree.t = "array" -> <<"[">> \o StringifyKids(tree, 1) \o <<"]">>
    [] OTHER -> <<"{">> \o StringifyKids(tree, 1) \o <<"}">>

StringifyKids(tree, i) ==
  IF i > Len(tree.kids) THEN << >>
  ELSE (IF i > 1 THEN <<",">> ELSE << >>)
       \o (IF tree.t = "object"
           THEN <<"\"">> \o tree.keys[i] \o <<"\"", ":">> ELSE << >>)
       \o Stringify(tree.kids[i])
       \o StringifyKids(tree, i + 1)

RECURSIVE DeepEqual(_, _, _)
\* Whether the value v of the heap is the value the tree describes.
DeepEqual(heap, v, tree) ==
  CASE tree.t = "array" ->
         /\ IsRef(v)
         /\ heap[v.n].isArr
         /\ heap[v.n].length = Len(tree.kids)
         /\ Len(heap[v.n].keys) = Len(tree.kids)
         /\ \A i \in 1..Len(tree.kids) :
              /\ HasProp(heap[v.n], NatToStr(i - 1))
              /\ DeepEqual(heap, GetProp(heap[v.n], NatToStr(i - 1)), tree.kids[i])
    [] tree.t = "object" ->
         /\ IsRef(v)
         /\ ~heap[v.n].isArr
         /\ Len(heap[v.n].keys) = Len(tree.keys)
         /\ \A i \in 1..Len(tree.keys) :
              /\ HasProp(heap[v.n], tree.keys[i])
              /\ DeepEqual(heap, GetProp(heap[v.n], tree.keys[i]), tree.kids[i])
    [] OTHER -> v.t = tree.t /\ v.n = tree.n /\ v.s = tree.s

\* The top-level scalars decoded.
ScalarDocs ==
  {TNum(42), TStr(<<"a", "b", "c">>), TBool(TRUE), TBool(FALSE), TNull}

\* The objects and arrays decoded.
CompositeDocs ==
  {TArr(<< >>),
   TObj(<< >>, << >>),
   TArr(<<TNum(1), TObj(<<<<"b">>>>, <<TBool(TRUE)>>)>>),
   TObj(<<<<"a">>>>, <<TArr(<<TStr(<<"]">>)>>)>>)}

Docs == ScalarDocs \cup CompositeDocs

\* Beginnings of a document that is not all there: an unterminated string,
\* a cut literal, an unclosed object and an unclosed array.
PartialTails ==
  {<<"\"", "a", "b">>,
   <<"t", "r">>,
   <<"{", "\"", "a", "\"", ":">>,
   <<"[", "1", ",">>}

\* The characters of the arbitrary texts.
RawAlphabet == {"{", "}", "[", "]", "\"", "a", "1", " "}

\* Longest arbitrary text.
MaxLen == 3

\* Most documents in one stream.
MaxDocs == 2

\* The depth of recursion at which the engine gives up (RangeError).
MaxDepth == 8

\* The most objects and arrays in a graph decycle is called on.
MaxNodes == 2

RECURSIVE StringsUpTo(_)
StringsUpTo(n) ==
  IF n = 0 THEN {<< >>}
  ELSE LET shorter == StringsUpTo(n - 1)
       IN shorter \cup {Append(s, c) : s \in {x \in shorter : Len(x) = n - 1},
                                      c \in RawAlphabet}

RECURSIVE DocSeqsUpTo(_)
DocSeqsUpTo(n) ==
  IF n = 0 THEN {<< >>}
  ELSE LET shorter == DocSeqsUpTo(n - 1)
       IN shorter \cup {Append(s, d) : s \in {x \in shorter : Len(x) = n - 1},
                                      d \in Docs}

RECURSIVE Concat(_)
\* The texts of the documents one after the other, with no separator.
Concat(ds) == IF ds = << >> THEN << >> ELSE Stringify(Head(ds)) \o Concat(Tail(ds))

(***************************************************************************)
(* decycle                                                                 *)
(* The state threaded through derez is a record d: the heap, the WeakMap   *)
(* objects (pairs of an object and its path), whether the recursion passed *)
(* the depth the engine allows, and value, the argument on the way in and  *)
(* the returned value on the way out.  d.log is history, not program       *)
(* state: one entry for each object or array derez met, in the order it    *)
(* met them, with the position (the child numbers from the root) it was    *)
(* met at.  d.calls is history too: one entry for each call of the         *)
(* replacer, with the position derez was at.                               *)
(***************************************************************************)
\* The values of replacer the model draws from: none (undefined), one that
\* returns its argument, one that returns the root for every value, and one
\* that wraps every value in a new object.
Replacers == {"none", "same", "root", "wrap"}

\* A slip: the value the replacer returns is not used.
ReplacedNot(d, replacer) == d

\* value = replacer(value)
Replaced(d, replacer) ==
  CASE replacer = "root" -> [d EXCEPT !.value = Ref(1)]
    [] replacer = "wrap" ->
         [d EXCEPT !.heap = Append(@, SetProp(NewObject, <<"v">>, d.value)),
                   !.value = Ref(Len(d.heap) + 1)]
    [] OTHER -> d

\* The call of the replacer on value at the position pos, r being the state
\* after it.
Called(r, pos, value) ==
  [r EXCEPT !.calls = Append(@, [pos |-> pos, arg |-> value, ret |-> r.value])]

\* typeof value === 'object' && value !== null && !(value instanceof ...):
\* null, and the instances of Boolean, Date, Number, RegExp and String,
\* are values of other tags than "object".
IsComposite(v) == v.t = "object"

MemoPos(objects, a) ==
  IF \E i \in 1..Len(objects) : objects[i].obj = a
  THEN CHOOSE i \in 1..Len(objects) : objects[i].obj = a
  ELSE 0

\* A slip: the lookup finds nothing.
SeenNever(objects, a) == FALSE

\* old_path !== undefined, for old_path = objects.get(value)
Seen(objects, a) == MemoPos(objects, a) # 0

\* objects.get(value)
OldPath(objects, a) == objects[MemoPos(objects, a)].path

\* A slip: the marker carries the path of this occurrence.
MarkerOfNewPath(old_path, path) == SetProp(NewObject, <<"$", "r", "e", "f">>, Str(path))

\* {$ref: old_path}, met at path.
Marker(old_path, path) == SetProp(NewObject, <<"$", "r", "e", "f">>, Str(old_path))

\* return {$ref: old_path}
MakeRef(d, path, pos) ==
  [d EXCEPT !.heap = Append(@, Marker(OldPath(d.objects, d.value.n), path)),
            !.log = Append(@, [obj |-> d.value.n, fresh |-> FALSE, pos |-> pos,
                               path |-> OldPath(d.objects, d.value.n),
                               out |-> Len(d.heap) + 1]),
            !.value = Ref(Len(d.heap) + 1)]

\* objects.set(value, path); nu = [] or nu = {}
Visit(d, path, pos) ==
  [d EXCEPT !.objects = Append(@, [obj |-> d.value.n, path |-> path]),
            !.heap = Append(@, IF d.heap[d.value.n].isArr THEN NewArray ELSE NewObject),
            !.log = Append(@, [obj |-> d.value.n, fresh |-> TRUE, pos |-> pos,
                               path |-> path, out |-> Len(d.heap) + 1])]

RECURSIVE ArrayIndexKeys(_, _)
\* The indexes forEach visits: those below the length that are present.
ArrayIndexKeys(node, i) ==
  IF i >= node.length THEN << >>
  ELSE (IF HasProp(node, NatToStr(i)) THEN <<NatToStr(i)>> ELSE << >>)
       \o ArrayIndexKeys(node, i + 1)

RECURSIVE SortedIndexKeys(_)
\* The array-index names of the set, ascending.
SortedIndexKeys(nums) ==
  IF nums = {} THEN << >>
  ELSE <<NatToStr(CHOOSE n \in nums : \A m \in nums : n <= m)>>
       \o SortedIndexKeys(nums \ {CHOOSE n \in nums : \A m \in nums : n <= m})

IsNamedKey(k) == ~IsIndexKey(k)

\* Object.keys(value): the array-index names ascending, then the other names
\* in insertion order.
ObjectKeys(node) ==
  SortedIndexKeys({StrToNat(node.keys[i]) :
                     i \in {j \in 1..Len(node.keys) : IsIndexKey(node.keys[j])}})
  \o SelectSeq(node.keys, IsNamedKey)

\* A slip: the last child is not copied.
KidKeysButLast(node) ==
  IF node.isArr
  THEN ArrayIndexKeys([node EXCEPT !.length = IF @ = 0 THEN 0 ELSE @ - 1], 0)
  ELSE SubSeq(ObjectKeys(node), 1, Len(ObjectKeys(node)) - 1)

\* The names of the children derez copies, in the order it does.
KidKeys(node) == IF node.isArr THEN ArrayIndexKeys(node, 0) ELSE ObjectKeys(node)

RECURSIVE JsonQuoteChars(_)
JsonQuoteChars(s) ==
  IF s = << >> THEN << >>
  ELSE (CASE s[1] = "\"" -> <<"\\", "\"">>
          [] s[1] = "\\" -> <<"\\", "\\">>
          [] s[1] = "\n" -> <<"\\", "n">>
          [] s[1] = "\r" -> <<"\\", "r">>
          [] s[1] = "\t" -> <<"\\", "t">>
          [] s[1] = "\f" -> <<"\\", "f">>
          [] OTHER -> <<s[1]>>)
       \o JsonQuoteChars(Tail(s))

\* JSON.stringify(name) of a string.
JsonQuote(s) == <<"\"">> \o JsonQuoteChars(s) \o <<"\"">>

\* path + '[' + i + ']', or path + '[' + JSON.stringify(name) + ']'
ChildPath(path, isArr, key) ==
  path \o <<"[">> \o (IF isArr THEN key ELSE JsonQuote(key)) \o <<"]">>

\* A slip: the value is stored in the root of the input too.
StoredInInput(d, nu, key) ==
  IF d.overflow THEN d
  ELSE [d EXCEPT !.heap[nu] = SetProp(@, key, d.value),
                 !.heap[1] = SetProp(@, key, d.value)]

\* nu[i] = ..., nu[name] = ...: the value derez returned is stored in the copy.
Stored(d, nu, key) ==
  IF d.overflow THEN d ELSE [d EXCEPT !.heap[nu] = SetProp(@, key, d.value)]

\* The recursion passes the depth the engine allows.
Overflowed(d) == [d EXCEPT !.overflow = TRUE, !.value = Undefined]

RECURSIVE derez(_, _, _, _, _)
RECURSIVE DerezKids(_, _, _, _, _, _, _, _, _)
\* value.forEach(...), Object.keys(value).forEach(...): the children of src
\* from the i-th of keys on, each copied into nu; then return nu.
DerezKids(d, replacer, src, nu, keys, i, path, pos, fuel) ==
  IF d.overflow THEN d
  ELSE IF i > Len(keys) THEN [d EXCEPT !.value = Ref(nu)]
  ELSE DerezKids(
         Stored(derez([d EXCEPT !.value = GetProp(d.heap[src], keys[i])], replacer,
                      ChildPath(path, d.heap[src].isArr, keys[i]),
                      Append(pos, i), fuel - 1),
                nu, keys[i]),
         replacer, src, nu, keys, i + 1, path, pos, fuel)

\* derez after the replacer: a value that is no object or array is returned
\* as it is, one met before becomes a marker, a new one is copied.
DerezValue(d, replacer, path, pos, fuel) ==
  IF ~IsComposite(d.value) THEN d
  ELSE IF Seen(d.objects, d.value.n) THEN MakeRef(d, path, pos)
  ELSE DerezKids(Visit(d, path, pos), replacer, d.value.n, Len(d.heap) + 1,
                 KidKeys(d.heap[d.value.n]), 1, path, pos, fuel)

\* derez(value, path), value being d.value.
derez(d, replacer, path, pos, fuel) ==
  IF fuel = 0 THEN Overflowed(d)
  ELSE DerezValue(IF replacer = "none" THEN d
                  ELSE Called(Replaced(d, replacer), pos, d.value),
                  replacer, path, pos, fuel)

\* decycle(object, replacer) on the heap given: objects = new WeakMap(), and
\* derez(object, '$').
decycle(heap, object, replacer) ==
  derez([heap |-> heap, objects |-> << >>, log |-> << >>, calls |-> << >>,
         overflow |-> FALSE, value |-> object],
        replacer, <<"$">>, << >>, MaxDepth)

(***************************************************************************)
(* jsonRawDecode with a reviver                                            *)
(* The state threaded through walk is a record w: the heap, lastIndex of   *)
(* the token regular expression (shared by all calls), del, the toDelete   *)
(* of the loop that just ended, and value, what the last call of walk      *)
(* returned.  w.log is history: one entry for each call of the reviver, in *)
(* the order of the calls, with the object or array presented as it was at *)
(* the call.                                                               *)
(***************************************************************************)
\* The values of opt_reviver the model draws from: none; one that returns
\* the value; one that returns undefined for the key "a"; one that returns
\* 7 for every number; one that returns undefined for everything but
\* objects and arrays; one that calls jsonRawDecode on NestedText and
\* returns the value.
Revivers == {"none", "same", "dropA", "seven", "zap", "nested"}

\* The text the last of the revivers decodes: a complete array and the
\* beginning of another.
NestedText == <<"[", "1", "]", "[">>

\* A slip: tokenize returns at the first match, the regular expression
\* left at the end of it.
LastIndexOfFirstMatch(s, lastIndex) ==
  IF TokensFrom(s, lastIndex + 1) = << >> THEN 0
  ELSE TokensFrom(s, lastIndex + 1)[1].index + Len(TokensFrom(s, lastIndex + 1)[1].text)

\* lastIndex of the regular expression when tokenize returns: the exec that
\* ended the loop matched nothing, which sets it to 0.
LastIndexAfter(s, lastIndex) == 0

\* tokenize(re, s) with re.lastIndex as the earlier calls left it: the first
\* exec searches from there.
tokenizeAt(s, lastIndex) == TokensFrom(s, lastIndex + 1)

RECURSIVE DelProps(_, _, _)
\* delete value[toDelete[i]], from the i-th of toDelete down to the first.
DelProps(node, toDelete, i) ==
  IF i = 0 THEN node
  ELSE DelProps(
         IF HasProp(node, toDelete[i])
         THEN [node EXCEPT
                 !.keys = SubSeq(@, 1, KeyPos(node, toDelete[i]) - 1)
                          \o SubSeq(@, KeyPos(node, toDelete[i]) + 1, Len(@)),
                 !.vals = SubSeq(@, 1, KeyPos(node, toDelete[i]) - 1)
                          \o SubSeq(@, KeyPos(node, toDelete[i]) + 1, Len(@))]
         ELSE node,
         toDelete, i - 1)

\* What opt_reviver returns for key and value.
ReviverReturn(reviver, key, value) ==
  CASE reviver = "dropA" -> IF key = <<"a">> THEN Undefined ELSE value
    [] reviver = "seven" -> IF value.t = "number" THEN Num(7) ELSE value
    [] reviver = "zap" -> IF IsRef(value) THEN value ELSE Undefined
    [] OTHER -> value

\* The heap and lastIndex after the body of the reviver: the last of the
\* revivers calls jsonRawDecode(NestedText).
ReviverEffect(w, reviver) ==
  IF reviver = "nested"
  THEN [w EXCEPT
          !.heap = DecodeTokens(w.heap, NestedText,
                                tokenizeAt(NestedText, w.lastIndex)).heap,
          !.lastIndex = LastIndexAfter(NestedText, w.lastIndex)]
  ELSE w

\* return opt_reviver.call(holder, key, value)
Revived(w, reviver, holder, key, value) ==
  [ReviverEffect(w, reviver) EXCEPT
     !.log = Append(@, [holder |-> holder, key |-> key, arg |-> value,
                        node |-> IF IsRef(value) THEN w.heap[value.n] ELSE NewObject,
                        ret |-> ReviverReturn(reviver, key, value)]),
     !.value = ReviverReturn(reviver, key, value)]

RECURSIVE walk(_, _, _, _)
RECURSIVE WalkKids(_, _, _, _, _, _, _)
\* A slip: a property the reviver returns undefined for is left alone.
KidWalkedKeeps(w, reviver, holder, x, keys, i, toDelete) ==
  IF w.value # Undefined
  THEN WalkKids([w EXCEPT !.heap[x] = SetProp(@, keys[i], w.value)],
                reviver, holder, x, keys, i + 1, toDelete)
  ELSE WalkKids(w, reviver, holder, x, keys, i + 1, toDelete)

\* After v = walk(value, k): value[k] = v, or k is added to toDelete.
KidWalked(w, reviver, holder, x, keys, i, toDelete) ==
  IF w.value # Undefined
  THEN WalkKids([w EXCEPT !.heap[x] = SetProp(@, keys[i], w.value)],
                reviver, holder, x, keys, i + 1, toDelete)
  ELSE WalkKids(w, reviver, holder, x, keys, i + 1, Append(toDelete, keys[i]))

\* for (var k in value): the properties of the object or array x from the
\* i-th of keys on.
WalkKids(w, reviver, holder, x, keys, i, toDelete) ==
  IF i > Len(keys) THEN [w EXCEPT !.del = toDelete]
  ELSE IF HasProp(w.heap[x], keys[i]) /\ x # holder
  THEN KidWalked(walk(w, reviver, x, keys[i]), reviver, holder, x, keys, i, toDelete)
  ELSE WalkKids(w, reviver, holder, x, keys, i + 1, toDelete)

\* The deletions after the loop.
Deleted(w, x) == [w EXCEPT !.heap[x] = DelProps(@, w.del, Len(w.del))]

\* The body of walk before the reviver is called, value being holder[key].
WalkValue(w, reviver, holder, value) ==
  IF IsRef(value)
  THEN Deleted(WalkKids(w, reviver, holder, value.n, ObjectKeys(w.heap[value.n]),
                        1, << >>),
               value.n)
  ELSE w

\* A slip: the reviver is called before the properties are walked.
WalkOfParentFirst(w, reviver, holder, key, value) ==
  [WalkValue(Revived(w, reviver, holder, key, value), reviver, holder, value)
     EXCEPT !.value = ReviverReturn(reviver, key, value)]

\* The body of walk, value being holder[key].
WalkOf(w, reviver, holder, key, value) ==
  Revived(WalkValue(w, reviver, holder, value), reviver, holder, key, value)

\* walk(holder, key)
walk(w, reviver, holder, key) ==
  WalkOf(w, reviver, holder, key, GetProp(w.heap[holder], key))

\* What jsonRawDecode returns, and leaves, when walk has returned w.
WalkResult(o, w) ==
  [isPair |-> TRUE, value |-> w.value, index |-> o.index, heap |-> w.heap,
   log |-> w.log, lastIndex |-> w.lastIndex]

\* if (opt_reviver) result = walk({'': result}, ''), o being what the
\* builder made of the tokens.
Revive(o, complete, reviver, lastIndex) ==
  IF reviver = "none" \/ ~complete
  THEN [isPair |-> o.isPair, value |-> o.value, index |-> o.index, heap |-> o.heap,
        log |-> << >>, lastIndex |-> lastIndex]
  ELSE WalkResult(o, walk([heap |-> Append(o.heap, SetProp(NewObject, << >>, o.value)),
                           lastIndex |-> lastIndex, del |-> << >>, log |-> << >>,
                           value |-> Undefined],
                          reviver, Len(o.heap) + 1, << >>))

\* Whether the builder's result o of the tokens is past both returns of
\* "incomplete" and the return of "no token".
Complete(toks, o) == toks # << >> /\ o.isPair

\* The body of jsonRawDecode after the loop, o being what the builder made
\* of the tokens.
ReviveBuilt(json, toks, o, reviver, lastIndex) ==
  Revive(o, Complete(toks, o), reviver, LastIndexAfter(json, lastIndex))

\* The body of jsonRawDecode once the text is split into tokens.
DecodeAndRevive(heap, json, toks, reviver, lastIndex) ==
  ReviveBuilt(json, toks, DecodeTokens(heap, json, toks), reviver, lastIndex)

\* jsonRawDecode(json, opt_reviver), run on the heap given with the token
\* regular expression as the earlier calls left it.
jsonRawDecodeReviver(heap, lastIndex, json, reviver) ==
  DecodeAndRevive(heap, json, tokenizeAt(json, lastIndex), reviver, lastIndex)

(***************************************************************************)
(* jsonDecode and its caller                                               *)
(***************************************************************************)
VARIABLES
  docs,         \* the complete documents the stream begins with
  tail,         \* what follows them in the stream
  fed,          \* how many characters of the stream the caller's buffer holds
  pc,           \* "idle", "decoding", "returned" or "overflow"
  jsonString,   \* the argument of the current invocation of jsonDecode
  jsonObjList,  \* its accumulator
  arg,          \* the text jsonRawDecode was last called on
  out,          \* what it returned
  depth,        \* the invocations of jsonDecode of the current call
  heap,         \* the objects and arrays of the current call
  graph,        \* the objects and arrays decycle is called on, the root first
  replacer,     \* the replacer decycle is called with
  dpc,          \* "unused", "built", "returned", "thrown" or "again"
  dec,          \* what the call of decycle left
  dec2,         \* what a second call of decycle on the same root left
  lastIndex,    \* lastIndex of the token regular expression jsonToken
  kept,         \* the objects and arrays the call before this one left
  call,         \* the text and the reviver jsonRawDecode was called with
  ret,          \* what the call returned, and left
  rpc,          \* "unused", "ready" or "done"
  store,        \* the state of the store: biosReadBuffer and status
  state,        \* what getState() returned to monitorBiosReadCharacteristic
  notes,        \* the notifications so far: error or not, and the response
  dispatched,   \* the actions dispatched so far, each with its notification
  faults,       \* the notifications whose handler ended in an exception
  mpc,          \* "unused", "idle", "ignored" or "monitoring"
  text,         \* writeCharacteristic: the char codes of its argument
  bufView,      \* writeCharacteristic: the bytes of the text
  offset,       \* writeCharacteristic: offset
  written,      \* writeCharacteristic: the packets written so far
  wpc,          \* "unused", "called", "loop" or "done"
  array,        \* the argument of crcVal
  output,       \* what crcVal returned
  cpc           \* "unused", "called", "returned" or "thrown"

decodeVars == <<docs, tail, fed, pc, jsonString, jsonObjList, arg, out, depth, heap>>

decycleVars == <<graph, replacer, dpc, dec, dec2>>

reviverVars == <<lastIndex, kept, call, ret, rpc>>

monitorVars == <<store, state, notes, dispatched, faults, mpc>>

writeVars == <<text, bufView, offset, written, wpc>>

crcVars == <<array, output, cpc>>

vars == <<decodeVars, decycleVars, reviverVars, monitorVars, writeVars, crcVars>>

notDecode == <<decycleVars, reviverVars, monitorVars, writeVars, crcVars>>

notDecycle == <<decodeVars, reviverVars, monitorVars, writeVars, crcVars>>

notReviver == <<decodeVars, decycleVars, monitorVars, writeVars, crcVars>>

notMonitor == <<decodeVars, decycleVars, reviverVars, writeVars, crcVars>>

notWrite == <<decodeVars, decycleVars, reviverVars, monitorVars, crcVars>>

notCrc == <<decodeVars, decycleVars, reviverVars, monitorVars, writeVars>>

stream == Concat(docs) \o tail

buffer == SubSeq(stream, 1, fed)

NoOut == [isPair |-> FALSE, value |-> Undefined, index |-> -1, heap |-> << >>]

NoDec == [heap |-> << >>, objects |-> << >>, log |-> << >>, calls |-> << >>,
          overflow |-> FALSE, value |-> Undefined]

DecodeUnused ==
  /\ docs = << >> /\ tail = << >> /\ fed = 0 /\ pc = "idle"
  /\ jsonString = << >> /\ jsonObjList = << >> /\ arg = << >>
  /\ out = NoOut /\ depth = 0 /\ heap = << >>

DecycleUnused ==
  graph = << >> /\ replacer = "none" /\ dpc = "unused" /\ dec = NoDec /\ dec2 = NoDec

NoCall == [json |-> << >>, reviver |-> "none"]

NoRet == [isPair |-> FALSE, value |-> Undefined, index |-> -1, heap |-> << >>,
          log |-> << >>, lastIndex |-> 0]

ReviverUnused ==
  lastIndex = 0 /\ kept = << >> /\ call = NoCall /\ ret = NoRet /\ rpc = "unused"

NoStore == [biosReadBuffer |-> << >>, status |-> << >>]

MonitorUnused ==
  /\ store = NoStore /\ state = NoStore /\ notes = << >>
  /\ dispatched = << >> /\ faults = {} /\ mpc = "unused"

WriteUnused == text = << >> /\ bufView = << >> /\ offset = 0 /\ written = << >> /\ wpc = "unused"

CrcUnused == array = << >> /\ output = 0 /\ cpc = "unused"

ActionsUnused == MonitorUnused /\ WriteUnused /\ CrcUnused

Init ==
  /\ \/ docs \in DocSeqsUpTo(MaxDocs) /\ tail = << >>
     \/ docs \in DocSeqsUpTo(MaxDocs) \ {<< >>} /\ tail \in PartialTails
     \/ docs = << >> /\ tail \in StringsUpTo(MaxLen)
  /\ fed = 0
  /\ pc = "idle"
  /\ jsonString = << >>
  /\ jsonObjList = << >>
  /\ arg = << >>
  /\ out = NoOut
  /\ depth = 0
  /\ heap = << >>
  /\ DecycleUnused
  /\ ReviverUnused
  /\ ActionsUnused

\* The caller extends its buffer to the first k characters of the stream and
\* calls jsonDecode(buffer), the accumulator defaulting to [].
Receive(k) ==
  /\ pc \in {"idle", "returned", "overflow"}
  /\ k <= Len(stream)
  /\ k > fed \/ (pc = "idle" /\ k = fed)
  /\ fed' = k
  /\ pc' = "decoding"
  /\ jsonString' = SubSeq(stream, 1, k)
  /\ jsonObjList' = << >>
  /\ arg' = << >>
  /\ out' = NoOut
  /\ depth' = 1
  /\ heap' = << >>
  /\ UNCHANGED <<docs, tail, notDecode>>

\* Whether this invocation of jsonDecode returns rather than calls itself.
Returns(o, js) == ~o.isPair \/ Substr(js, o.index) = << >>

\* The body of jsonDecode once jsonRawDecode has returned o: out === 0
\* returns the accumulator as it is; else the value is appended and the
\* function returns, or calls itself on the rest of the text.
Decoded(o) ==
  /\ Returns(o, jsonString) \/ depth < MaxDepth
  /\ arg' = jsonString
  /\ out' = [o EXCEPT !.heap = << >>]
  /\ heap' = o.heap
  /\ IF ~o.isPair
     THEN /\ pc' = "returned"
          /\ UNCHANGED <<jsonString, jsonObjList, depth>>
     ELSE /\ jsonObjList' = Append(jsonObjList, o.value)
          /\ jsonString' = Substr(jsonString, o.index)
          /\ IF Substr(jsonString, o.index) = << >>
             THEN pc' = "returned" /\ depth' = depth
             ELSE pc' = "decoding" /\ depth' = depth + 1

\* One invocation of jsonDecode(jsonString, jsonObjList).
jsonDecode ==
  /\ pc = "decoding"
  /\ Decoded(jsonRawDecode(heap, jsonString))
  /\ UNCHANGED <<docs, tail, fed, notDecode>>

\* The recursion of jsonDecode passes the depth the engine allows.
StackOverflow ==
  /\ pc = "decoding"
  /\ depth = MaxDepth
  /\ ~Returns(jsonRawDecode(heap, jsonString), jsonString)
  /\ pc' = "overflow"
  /\ UNCHANGED <<docs, tail, fed, jsonString, jsonObjList, arg, out, depth, heap,
                 notDecode>>

Next ==
  \/ \E k \in 0..Len(stream) : Receive(k)
  \/ jsonDecode
  \/ StackOverflow

Spec == Init /\ [][Next]_vars

(***************************************************************************)
(* The caller of decycle                                                   *)
(***************************************************************************)
\* The objects and arrays that are children of one of the set.
KidsOf(h, S) ==
  UNION {{h[a].vals[i].n : i \in {j \in 1..Len(h[a].vals) : IsRef(h[a].vals[j])}} :
           a \in S}

RECURSIVE ReachFrom(_, _)
\* The objects and arrays reachable from those of the set, the set included.
ReachFrom(h, S) ==
  IF KidsOf(h, S) \subseteq S THEN S ELSE ReachFrom(h, S \cup KidsOf(h, S))

\* The objects and arrays reachable from the value v.
Reach(h, v) == IF IsRef(v) THEN ReachFrom(h, {v.n}) ELSE {}

\* The value a child of an input object or array can have: a number, or any
\* of the n objects and arrays, the root and the parent included.
KidValues(n) == {Num(1)} \cup {Ref(a) : a \in 1..n}

KidCounts == {0, 1, 2}

KidSeqs(n) == UNION {[1..k -> KidValues(n)] : k \in KidCounts}

\* The names of the properties of an input object, in insertion order.
KidNames == << <<"a">>, <<"\"">> >>

\* The array [kids...], or the object {a: kids[1], "\"": kids[2]}.
MakeNode(isArr, kids) ==
  [isArr |-> isArr,
   keys |-> [i \in 1..Len(kids) |-> IF isArr THEN NatToStr(i - 1) ELSE KidNames[i]],
   vals |-> kids,
   length |-> IF isArr THEN Len(kids) ELSE 0]

\* The graphs of n objects and arrays, each reachable from the first.
Graphs(n) ==
  {g \in [1..n -> {MakeNode(isArr, kids) : isArr \in BOOLEAN, kids \in KidSeqs(n)}] :
     Reach(g, Ref(1)) = 1..n}

DecycleInit ==
  /\ DecodeUnused
  /\ ReviverUnused
  /\ ActionsUnused
  /\ graph \in UNION {Graphs(n) : n \in 1..MaxNodes}
  /\ replacer \in Replacers
  /\ dpc = "built"
  /\ dec = NoDec
  /\ dec2 = NoDec

\* The call decycle(object, replacer) of the root of the graph: it returns,
\* or ends in the engine's RangeError.
Decycle ==
  /\ dpc = "built"
  /\ dec' = decycle(graph, Ref(1), replacer)
  /\ dpc' = IF dec'.overflow THEN "thrown" ELSE "returned"
  /\ UNCHANGED <<notDecycle, graph, replacer, dec2>>

\* A second call decycle(object, replacer) of the same root, the objects
\* and arrays of the first call still there.
DecycleAgain ==
  /\ dpc = "returned"
  /\ dec2' = decycle(dec.heap, Ref(1), replacer)
  /\ dpc' = "again"
  /\ UNCHANGED <<notDecycle, graph, replacer, dec>>

DecycleNext == Decycle \/ DecycleAgain

SpecDecycle == DecycleInit /\ [][DecycleNext]_vars

(***************************************************************************)
(* The callers of jsonRawDecode with a reviver                             *)
(***************************************************************************)
\* The documents decoded with a reviver.
ReviverDocs ==
  {TObj(<<<<"a">>, <<"b">>>>,
        <<TNum(1), TObj(<<<<"a">>, <<"c">>>>, <<TNum(2), TArr(<<TNum(3)>>)>>)>>),
   TArr(<<TNum(1), TObj(<<<<"a">>>>, <<TBool(TRUE)>>), TArr(<<TNull>>)>>),
   TObj(<<<< >>, <<"a">>>>, <<TNum(1), TStr(<<"x">>)>>),
   TNum(42)}

\* The texts jsonRawDecode is called on: each document whole and without
\* its last character, one document after another, a document after a
\* stray bracket, and the empty text.
ReviverTexts ==
  {Stringify(d) : d \in ReviverDocs}
  \cup {SubSeq(Stringify(d), 1, Len(Stringify(d)) - 1) : d \in ReviverDocs}
  \cup {Stringify(TObj(<<<<"a">>>>, <<TNum(1)>>)) \o <<" ">> \o Stringify(TArr(<<TNum(2)>>)),
        <<"]">> \o Stringify(TObj(<<<<"a">>>>, <<TNum(1)>>)),
        << >>}

\* The objects and arrays of the heap from the L+1-st on, as a heap of
\* their own.
Rebased(h, L) ==
  [i \in 1..(Len(h) - L) |->
     [h[L + i] EXCEPT
        !.vals = [j \in 1..Len(h[L + i].vals) |->
                    IF IsRef(h[L + i].vals[j]) THEN Ref(h[L + i].vals[j].n - L)
                    ELSE h[L + i].vals[j]]]]

RebasedValue(v, L) == IF IsRef(v) THEN Ref(v.n - L) ELSE v

ReviverInit ==
  /\ DecodeUnused
  /\ DecycleUnused
  /\ ActionsUnused
  /\ lastIndex = 0
  /\ kept = << >>
  /\ call = NoCall
  /\ ret = NoRet
  /\ rpc = "ready"

\* A call jsonRawDecode(json, reviver).  The caller holds the objects and
\* arrays the call before left, and no older ones.
Decode(json, reviver) ==
  /\ rpc \in {"ready", "done"}
  /\ kept' = Rebased(ret.heap, Len(kept))
  /\ call' = [json |-> json, reviver |-> reviver]
  /\ ret' = jsonRawDecodeReviver(kept', lastIndex, json, reviver)
  /\ lastIndex' = ret'.lastIndex
  /\ rpc' = "done"
  /\ UNCHANGED notReviver

ReviverNext == \E json \in ReviverTexts, reviver \in Revivers : Decode(json, reviver)

SpecReviver == ReviverInit /\ [][ReviverNext]_vars

(***************************************************************************)
(* src/actions/index.js: monitorBiosReadCharacteristic                     *)
(***************************************************************************)
BIOS_SERVICE_UUID == "2456e1b9-26e2-8f83-e744-f34f01e9d701"

OTHER_SERVICE_UUID == "0000180a-0000-1000-8000-00805f9b34fb"

\* Most notifications of one subscription.
MaxNotes == 3

\* What the store can hold as biosReadBuffer when the thunk runs.
InitialBuffers == { << >>, <<"[">> }

\* The decoded payloads of the notifications.
Responses == { <<"{", "\"", "a", "\"">>, <<":", "1", "}">>, <<"[", "1", "]">> }

changeStatus(status) == [type |-> "CHANGE_STATUS", val |-> status]

biosSetReadBuffer(val) == [type |-> "BIOS_SET_READ_BUFFER", val |-> val]

biosSetReadLastJson(json) == [type |-> "BIOS_SET_READ_LAST_JSON", val |-> json]

Monitoring == <<"M", "o", "n", "i", "t", "o", "r", "i", "n", "g">>

\* The store answers a dispatch with a new state object: the one getState()
\* returned earlier keeps the fields it had.
Reduce(s, action) ==
  CASE action.type = "CHANGE_STATUS" -> [s EXCEPT !.status = action.val]
    [] action.type = "BIOS_SET_READ_BUFFER" -> [s EXCEPT !.biosReadBuffer = action.val]
    [] OTHER -> s

\* The names bound where the handler is defined: the imports, the
\* declarations of the module, and the locals of the thunk and the handler up
\* to line 231.
Scope ==
  { "Base64", "PermissionsAndroid", "Platform", "Buffer",
    "BIOS_SERVICE_UUID", "BIOS_CHARACTERISTIC_UUID",
    "changeStatus", "biosSetReadBuffer", "biosSetReadLastJson", "crcVal", "str2ab",
    "writeCharacteristic", "monitorBiosReadCharacteristic",
    "serviceId", "dispatch", "getState", "DeviceManager", "state", "subscription",
    "error", "characteristic", "charValue", "response", "readBuffer" }

\* Reading a name that is bound nowhere is a ReferenceError.
ReferenceError(names) == \E name \in names : name \notin Scope

\* The actions the handler dispatches for notification k, in order, up to
\* line 229.
HandlerDispatches(error, response) ==
  IF error
    THEN <<changeStatus(Monitoring)>>
    ELSE <<changeStatus(Monitoring), biosSetReadBuffer(state.biosReadBuffer \o response)>>

RECURSIVE ReduceAll(_, _)
ReduceAll(s, actions) ==
  IF actions = << >> THEN s ELSE ReduceAll(Reduce(s, Head(actions)), Tail(actions))

Stamped(actions, k) == [i \in 1..Len(actions) |-> [note |-> k, action |-> actions[i]]]

\* monitorBiosReadCharacteristic(serviceId), up to the subscription.
Monitor(serviceId) ==
  /\ mpc = "idle"
  /\ IF serviceId # BIOS_SERVICE_UUID
       THEN mpc' = "ignored" /\ state' = state
       ELSE mpc' = "monitoring" /\ state' = store
  /\ UNCHANGED <<store, notes, dispatched, faults>>
  /\ UNCHANGED notMonitor

\* One notification: the whole handler.  Line 231 reads jsonDecode and
\* jsonStr, so an error-free notification that gets there ends in the
\* ReferenceError and nothing after line 231 runs.
Notification(error, response) ==
  /\ mpc = "monitoring"
  /\ Len(notes) < MaxNotes
  /\ notes' = Append(notes, [error |-> error, response |-> response])
  /\ dispatched' = dispatched \o Stamped(HandlerDispatches(error, response), Len(notes) + 1)
  /\ store' = ReduceAll(store, HandlerDispatches(error, response))
  /\ faults' = IF ~error /\ ReferenceError({"jsonDecode", "jsonStr"})
                 THEN faults \cup {Len(notes) + 1}
                 ELSE faults
  /\ UNCHANGED <<state, mpc>>
  /\ UNCHANGED notMonitor

MonitorInit ==
  /\ DecodeUnused
  /\ DecycleUnused
  /\ ReviverUnused
  /\ WriteUnused
  /\ CrcUnused
  /\ store \in [biosReadBuffer : InitialBuffers, status : {<< >>}]
  /\ state = NoStore
  /\ notes = << >>
  /\ dispatched = << >>
  /\ faults = {}
  /\ mpc = "idle"

MonitorNext ==
  \/ \E serviceId \in {BIOS_SERVICE_UUID, OTHER_SERVICE_UUID} : Monitor(serviceId)
  \/ \E error \in BOOLEAN, response \in Responses : Notification(error, response)

SpecMonitor == MonitorInit /\ [][MonitorNext]_vars

(***************************************************************************)
(* src/actions/index.js: str2ab and writeCharacteristic                    *)
(***************************************************************************)
packetsize == 20

\* Longest text written.
MaxTextLen == 45

\* The text of length n: char codes that differ from place to place and
\* go beyond one byte.
CharCodeAt(i) == (i * 37) % 300

TextOfLength(n) == [i \in 1..n |-> CharCodeAt(i)]

\* A Uint8Array element keeps the low eight bits of what is stored in it.
str2ab(str) == [i \in 1..Len(str) |-> str[i] % 256]

\* buffer.slice(begin, end), positions counted from 0.
Slice(buf, begin, end) == SubSeq(buf, begin + 1, IF end < Len(buf) THEN end ELSE Len(buf))

PacketLengthShort(off, length) ==
  IF off + packetsize > length THEN length ELSE off + packetsize - 1

PacketLength(off, length) ==
  IF off + packetsize > length THEN length ELSE off + packetsize

\* Lines 179 to 183.
WriteStart ==
  /\ wpc = "called"
  /\ bufView' = str2ab(text)
  /\ offset' = 0
  /\ wpc' = "loop"
  /\ UNCHANGED <<text, written>>
  /\ UNCHANGED notWrite

\* One turn of the do-while loop, its test included.
WritePacket ==
  /\ wpc = "loop"
  /\ written' = Append(written, Slice(bufView, offset, PacketLength(offset, Len(bufView))))
  /\ offset' = offset + packetsize
  /\ wpc' = IF offset' < Len(bufView) THEN "loop" ELSE "done"
  /\ UNCHANGED <<text, bufView>>
  /\ UNCHANGED notWrite

WriteInit ==
  /\ DecodeUnused
  /\ DecycleUnused
  /\ ReviverUnused
  /\ MonitorUnused
  /\ CrcUnused
  /\ text \in {TextOfLength(n) : n \in 0..MaxTextLen}
  /\ bufView = << >>
  /\ offset = 0
  /\ written = << >>
  /\ wpc = "called"

WriteNext == WriteStart \/ WritePacket

SpecWrite == WriteInit /\ [][WriteNext]_vars

(***************************************************************************)
(* src/actions/index.js: crcVal                                            *)
(***************************************************************************)
\* Longest array given to crcVal.
MaxCrcLen == 3

\* The byte values the arrays are made of.
ByteSamples == {0, 1, 127, 128, 255}

RECURSIVE ArraysUpTo(_)
ArraysUpTo(n) ==
  IF n = 0 THEN {<< >>}
  ELSE ArraysUpTo(n - 1) \cup
       {Append(a, b) : a \in {x \in ArraysUpTo(n - 1) : Len(x) = n - 1}, b \in ByteSamples}

\* The callback given to reduce.
Reducer(currentVal, index) ==
  IF currentVal + index > 256 THEN currentVal + index - 256 ELSE currentVal + index

\* array.reduce(callback) with no initial value: the first element is the
\* first accumulator, and the callback runs from the second element on.
RECURSIVE reduce(_, _)
reduce(acc, rest) ==
  IF rest = << >> THEN acc ELSE reduce(Reducer(acc, Head(rest)), Tail(rest))

crcVal(a) == 255 - reduce(Head(a), Tail(a))

\* crcVal(array); reduce of an empty array with no initial value is a
\* TypeError.
CrcVal ==
  /\ cpc = "called"
  /\ IF array = << >>
       THEN cpc' = "thrown" /\ output' = output
       ELSE cpc' = "returned" /\ output' = crcVal(array)
  /\ UNCHANGED array
  /\ UNCHANGED notCrc

CrcInit ==
  /\ DecodeUnused
  /\ DecycleUnused
  /\ ReviverUnused
  /\ MonitorUnused
  /\ WriteUnused
  /\ array \in ArraysUpTo(MaxCrcLen)
  /\ output = 0
  /\ cpc = "called"

CrcNext == CrcVal

SpecCrc == CrcInit /\ [][CrcNext]_vars

(***************************************************************************)
(* Properties of jsonRawDecode and jsonDecode                              *)
(***************************************************************************)
\* The call under way is on the whole stream.
WholeStream == fed = Len(stream)

\* out is what jsonRawDecode returned for the caller's whole buffer.
FirstResult == out.index >= 0 /\ arg = buffer

\* The offset in the buffer at which the text of arg begins.
Cursor == Len(buffer) - Len(arg)

\* No number is directly followed by another document's number: the text then
\* has one reading only.
Unambiguous(ds) ==
  \A i \in 1..(Len(ds) - 1) : ~(ds[i].t = "number" /\ ds[i + 1].t = "number")

\* The accumulator holds the documents ds, in order.
Delivers(ds) ==
  /\ Len(jsonObjList) = Len(ds)
  /\ \A i \in 1..Len(ds) :
       i <= Len(jsonObjList) /\ DeepEqual(heap, jsonObjList[i], ds[i])

\* C1: decoding the concatenation of N complete documents returns exactly
\* the N values, in order, each equal to its document, and consumes the whole
\* text.
C1_ConcatenationDecodesEachDocument ==
  (docs # << >> /\ tail = << >> /\ Unambiguous(docs) /\ WholeStream) =>
    /\ pc # "overflow"
    /\ pc = "returned" => Delivers(docs) /\ jsonString = << >>

\* C2: fed a document chunk by chunk, jsonDecode adds nothing on a strict
\* prefix and returns the document, once, on the whole of it.
C2_ChunkedDocumentDeliveredOnce ==
  (Len(docs) = 1 /\ tail = << >> /\ docs[1].t # "number" /\ fed >= 1) =>
    /\ pc # "overflow"
    /\ ~WholeStream => jsonObjList = << >>
    /\ (pc = "returned" /\ WholeStream) => Delivers(docs)

\* C3: with a partial document after the complete ones, jsonDecode returns
\* exactly the complete ones and no index jsonRawDecode returns lies past the
\* first character of the partial document.
C3_PartialTailNotConsumed ==
  (docs # << >> /\ tail \in PartialTails /\ Unambiguous(docs) /\ WholeStream) =>
    /\ pc # "overflow"
    /\ pc = "returned" => Delivers(docs)
    /\ (out.isPair /\ out.index >= 0) => Cursor + out.index <= Len(Concat(docs))

\* C4: on a text that holds only part of a value, jsonRawDecode returns the
\* pair [undefined, 0].
C4_IncompleteIsUndefinedZeroPair ==
  (/\ Len(docs) = 1 /\ tail = << >> /\ docs[1].t # "number"
   /\ fed >= 1 /\ ~WholeStream /\ FirstResult) =>
    out.isPair /\ out.value = Undefined /\ out.index = 0

\* C5: jsonDecode ends on every text that is not empty, after no more rounds than the text has
\* characters, each round that adds a value moving the cursor on, and the
\* accumulator never longer than the text.
C5_TerminatesWithinInputLength ==
  fed >= 1 =>
    /\ pc # "overflow"
    /\ depth <= Len(buffer)
    /\ Len(jsonObjList) <= Len(buffer)
    /\ (out.isPair /\ out.index >= 0 /\ pc = "decoding") => out.index >= 1

\* C6: a text that is one complete top-level scalar decodes to that scalar:
\* jsonRawDecode builds it in a one-element array, unwraps it and returns
\* [scalar, text length], and jsonDecode returns the list [scalar].
C6_TopLevelScalarDecodes ==
  (Len(docs) = 1 /\ tail = << >> /\ IsScalarTree(docs[1]) /\ WholeStream) =>
    /\ pc # "overflow"
    /\ depth = 1
    /\ FirstResult =>
         /\ out.isPair
         /\ DeepEqual(heap, out.value, docs[1])
         /\ out.index = Len(buffer)
         /\ Len(heap) = 1 /\ heap[1].isArr /\ heap[1].length = 1
         /\ heap[1].keys = <<<<"0">>>> /\ heap[1].vals = <<out.value>>
    /\ pc = "returned" => Delivers(docs)

\* C6 witness: the text "abc" (in quotes) has been decoded to the string abc.
C6_Witness ==
  /\ pc = "returned"
  /\ docs = <<TStr(<<"a", "b", "c">>)>>
  /\ tail = << >>
  /\ WholeStream
  /\ jsonObjList = <<Str(<<"a", "b", "c">>)>>
  /\ out.index = 5

\* C7: the index returned with a value is the offset of the first character
\* past that value.
C7_IndexIsEndOfValue ==
  (/\ docs # << >> /\ tail = << >> /\ Unambiguous(docs)
   /\ WholeStream /\ FirstResult /\ out.isPair) =>
    out.index = Len(Stringify(docs[1]))

(***************************************************************************)
(* Properties of decycle                                                   *)
(***************************************************************************)
\* The places (an object or array, and one of its properties) that hold a.
Holders(h, S, a) ==
  UNION {{<<b, i>> : i \in {j \in 1..Len(h[b].vals) : h[b].vals[j] = Ref(a)}} :
           b \in S}

\* No object or array reachable from v is reachable from itself.
Acyclic(h, v) == \A a \in Reach(h, v) : a \notin ReachFrom(h, KidsOf(h, {a}))

\* Every object or array reachable from v is reachable by one path only.
TreeOver(h, v, R) ==
  \A a \in R : Cardinality(Holders(h, R, a)) = IF Ref(a) = v THEN 0 ELSE 1

IsTree(h, v) == TreeOver(h, v, Reach(h, v))

RECURSIVE SameValue(_, _, _, _, _)
\* Deep equality of the value v1 of heap h1 and the value v2 of heap h2.
SameValue(h1, v1, h2, v2, fuel) ==
  IF ~IsRef(v1) \/ ~IsRef(v2) THEN v1 = v2
  ELSE /\ fuel > 0
       /\ h1[v1.n].isArr = h2[v2.n].isArr
       /\ h1[v1.n].length = h2[v2.n].length
       /\ h1[v1.n].keys = h2[v2.n].keys
       /\ \A i \in 1..Len(h1[v1.n].keys) :
            SameValue(h1, h1[v1.n].vals[i], h2, h2[v2.n].vals[i], fuel - 1)

\* p comes before q in the depth-first order of positions.
Before(p, q) ==
  \E i \in 1..Len(q) :
    /\ \A j \in 1..(i - 1) : j <= Len(p) /\ p[j] = q[j]
    /\ i > Len(p) \/ p[i] < q[i]

RECURSIVE PosKeys(_, _, _, _)
\* The property names along the position pos of the input, from its i-th step.
PosKeys(h, v, pos, i) ==
  IF i > Len(pos) THEN << >>
  ELSE <<KidKeys(h[v.n])[pos[i]]>>
       \o PosKeys(h, GetProp(h[v.n], KidKeys(h[v.n])[pos[i]]), pos, i + 1)

RECURSIVE Follow(_, _, _, _)
\* The value reached from v along the property names keys, from the i-th on.
Follow(h, v, keys, i) ==
  IF i > Len(keys) THEN v
  ELSE IF ~IsRef(v) THEN Undefined
  ELSE Follow(h, GetProp(h[v.n], keys[i]), keys, i + 1)

RECURSIVE IndexEnd(_, _)
\* Where the ] of an index step is.
IndexEnd(P, i) == IF i > Len(P) \/ P[i] = "]" THEN i ELSE IndexEnd(P, i + 1)

Prepend(c, r) == [key |-> <<c>> \o r.key, next |-> r.next]

Unescaped(c) ==
  CASE c = "n" -> "\n" [] c = "r" -> "\r" [] c = "t" -> "\t" [] c = "f" -> "\f"
    [] OTHER -> c

RECURSIVE QuotedKey(_, _)
\* The name of a ["name"] step whose text begins at i, and where its closing
\* quote is.
QuotedKey(P, i) ==
  IF i > Len(P) \/ P[i] = "\"" THEN [key |-> << >>, next |-> i]
  ELSE IF P[i] = "\\" /\ i < Len(P) THEN Prepend(Unescaped(P[i + 1]), QuotedKey(P, i + 2))
  ELSE Prepend(P[i], QuotedKey(P, i + 1))

RECURSIVE PathKeys(_, _)
RECURSIVE PathKeysAfter(_, _)
PathKeysAfter(P, r) == <<r.key>> \o PathKeys(P, r.next + 2)

\* The property names of the steps of the JSONPath P, from the [ at i on.
PathKeys(P, i) ==
  IF i >= Len(P) THEN << >>
  ELSE IF P[i + 1] = "\"" THEN PathKeysAfter(P, QuotedKey(P, i + 2))
  ELSE <<SubSeq(P, i + 1, IndexEnd(P, i + 1) - 1)>> \o PathKeys(P, IndexEnd(P, i + 1) + 1)

\* The value the JSONPath P resolves to from the root v.
Resolve(h, v, P) == IF P[1] = "$" THEN Follow(h, v, PathKeys(P, 2), 1) ELSE Undefined

\* The entries of the log of the object or array a that are copies.
Copies(log, a) == {i \in 1..Len(log) : log[i].obj = a /\ log[i].fresh}

RefName == <<"$", "r", "e", "f">>

SelfArray == <<MakeNode(TRUE, <<Ref(1)>>)>>

\* C8: decycle without a replacer copies every object and array of the input
\* once, where the depth-first traversal in the order of the children first
\* meets it; every later occurrence becomes {$ref: P}, P the JSONPath of the
\* copy, which resolves in the output to the copy; and a = []; a[0] = a
\* gives [{"$ref":"$"}].
C8_FirstOccurrenceCopiedLaterReferenced ==
  (dpc = "returned" /\ replacer = "none") =>
    /\ \A a \in 1..Len(graph) :
         Cardinality(Copies(dec.log, a)) = 1
    /\ \A i, j \in 1..Len(dec.log) : i < j => Before(dec.log[i].pos, dec.log[j].pos)
    /\ \A i \in 1..Len(dec.log) :
         /\ Follow(graph, Ref(1), PosKeys(graph, Ref(1), dec.log[i].pos, 1), 1)
              = Ref(dec.log[i].obj)
         /\ Follow(dec.heap, dec.value, PosKeys(graph, Ref(1), dec.log[i].pos, 1), 1)
              = Ref(dec.log[i].out)
         /\ dec.log[i].fresh =>
              /\ PathKeys(dec.log[i].path, 2) = PosKeys(graph, Ref(1), dec.log[i].pos, 1)
              /\ Resolve(dec.heap, dec.value, dec.log[i].path) = Ref(dec.log[i].out)
              /\ dec.heap[dec.log[i].out].isArr = graph[dec.log[i].obj].isArr
              /\ dec.heap[dec.log[i].out].keys = graph[dec.log[i].obj].keys
              /\ \A k \in 1..Len(graph[dec.log[i].obj].vals) :
                   IsRef(graph[dec.log[i].obj].vals[k])
                   \/ dec.heap[dec.log[i].out].vals[k] = graph[dec.log[i].obj].vals[k]
         /\ ~dec.log[i].fresh =>
              \E c \in Copies(dec.log, dec.log[i].obj) :
                /\ c < i
                /\ dec.heap[dec.log[i].out]
                     = SetProp(NewObject, RefName, Str(dec.log[c].path))
                /\ Resolve(dec.heap, dec.value, dec.log[c].path) = Ref(dec.log[c].out)
    /\ graph = SelfArray =>
         DeepEqual(dec.heap, dec.value,
                   TArr(<<TObj(<<RefName>>, <<TStr(<<"$">>)>>)>>))

\* C8 witness: an object shared by two branches of the root array was copied
\* at $[0] and referenced from $[1], and its back-edge to the root became
\* {$ref: "$"}.
C8_Witness ==
  /\ dpc = "returned" /\ replacer = "none"
  /\ graph = <<MakeNode(TRUE, <<Ref(2), Ref(2)>>), MakeNode(FALSE, <<Num(1), Ref(1)>>)>>
  /\ Len(dec.log) = 4
  /\ dec.log[3].path = <<"$">> /\ ~dec.log[3].fresh
  /\ dec.log[4].path = <<"$", "[", "0", "]">> /\ ~dec.log[4].fresh

\* The replacers that create no object or array: none, the one that returns
\* its argument, the one that returns the root.
CreatesNothing(r) == r \in {"none", "same", "root"}

\* C9 as stated: decycle terminates on every finite graph with or without a
\* replacer, and what it returns has no cycle and no object or array
\* reachable by two paths.
C9_TerminatesWithAnyReplacer ==
  dpc # "built" => (dpc # "thrown" /\ IsTree(dec.heap, dec.value))

\* C9 amended: decycle terminates on every finite graph when no replacer is
\* given or the replacer creates no object or array, and what it returns has
\* no cycle and no object or array reachable by two paths.
C9_TerminatesUnlessReplacerCreates ==
  (dpc # "built" /\ CreatesNothing(replacer)) =>
    /\ dpc # "thrown"
    /\ IsTree(dec.heap, dec.value)
    /\ Reach(dec.heap, dec.value) \cap (1..Len(graph)) = {}

\* C9 witness: a graph with a cycle through both of its objects was copied
\* with a replacer that returns its argument.
C9_Witness ==
  /\ dpc = "returned" /\ replacer = "same"
  /\ Len(graph) = 2 /\ 1 \in ReachFrom(graph, {2}) /\ 2 \in ReachFrom(graph, {1})
  /\ \E i \in 1..Len(dec.log) : ~dec.log[i].fresh

\* C10 as stated: of every acyclic input decycle without a replacer returns
\* a deep-equal structure, no marker introduced.
C10_AcyclicInputCopiedEqual ==
  (dpc = "returned" /\ replacer = "none" /\ Acyclic(graph, Ref(1))) =>
    /\ SameValue(graph, Ref(1), dec.heap, dec.value, MaxDepth)
    /\ \A i \in 1..Len(dec.log) : dec.log[i].fresh

\* C10 amended: of every input in which no object or array is reachable by
\* two paths, decycle without a replacer returns a deep-equal structure of
\* new objects and arrays, no marker introduced.
C10_TreeInputCopiedEqual ==
  (dpc = "returned" /\ replacer = "none" /\ IsTree(graph, Ref(1))) =>
    /\ SameValue(graph, Ref(1), dec.heap, dec.value, MaxDepth)
    /\ \A i \in 1..Len(dec.log) : dec.log[i].fresh
    /\ Reach(dec.heap, dec.value) \cap (1..Len(graph)) = {}

\* C10 witness: the array [1, {"a": 1, "\"": 1}] was copied.
C10_Witness ==
  /\ dpc = "returned" /\ replacer = "none"
  /\ graph = <<MakeNode(TRUE, <<Num(1), Ref(2)>>), MakeNode(FALSE, <<Num(1), Num(1)>>)>>
  /\ Len(dec.log) = 2
  /\ dec.value = Ref(3)
  /\ dec.heap[4] = graph[2]

(***************************************************************************)
(* Properties of jsonRawDecode with a reviver                              *)
(***************************************************************************)
\* What the builder made of the text of the call, before any reviver.
Built == DecodeTokens(kept, call.json, tokenize(call.json))

\* The call was one with a reviver and got past the returns of "incomplete".
ReviverRan ==
  rpc = "done" /\ call.reviver # "none" /\ Complete(tokenize(call.json), Built)

\* The synthetic holder {'': result}.
RootHolder == Len(Built.heap) + 1

\* The objects and arrays of the decoded value.
DecodedObjects == Reach(Built.heap, Built.value)

\* The calls of the reviver on the property key of holder.
CallsOn(holder, key) ==
  {i \in 1..Len(ret.log) : ret.log[i].holder = holder /\ ret.log[i].key = key}

\* The property of the object after the call is what the reviver returned
\* for it: absent for undefined.
Applied(node, e) ==
  IF e.ret = Undefined THEN ~HasProp(node, e.key)
  ELSE HasProp(node, e.key) /\ GetProp(node, e.key) = e.ret

\* C11: with a reviver, every key of every decoded object or array for
\* which the reviver returned undefined is absent from the object at the
\* end, and every other key holds what the reviver returned for it; the
\* reviver is called once on the root holder with key "", after all other
\* calls, and what it returns there is the value jsonRawDecode returns.
C11_ReviverResultsApplied ==
  ReviverRan =>
    /\ \A x \in DecodedObjects :
         /\ \A p \in 1..Len(Built.heap[x].keys) :
              \E i \in CallsOn(x, Built.heap[x].keys[p]) :
                /\ ret.log[i].arg = Built.heap[x].vals[p]
                /\ Applied(ret.heap[x], ret.log[i])
         /\ \A p \in 1..Len(ret.heap[x].keys) : HasProp(Built.heap[x], ret.heap[x].keys[p])
    /\ CallsOn(RootHolder, << >>) = {Len(ret.log)}
    /\ ret.log[Len(ret.log)].arg = Built.value
    /\ ret.isPair
    /\ ret.value = ret.log[Len(ret.log)].ret
    /\ ret.index = Built.index

\* C11 witness: {"a":1,"b":{"a":2,"c":[3]}} decoded with the reviver that
\* returns undefined for the key "a" is {"b":{"c":[3]}}.
C11_Witness ==
  /\ rpc = "done" /\ call.reviver = "dropA"
  /\ call.json = Stringify(TObj(<<<<"a">>, <<"b">>>>,
        <<TNum(1), TObj(<<<<"a">>, <<"c">>>>, <<TNum(2), TArr(<<TNum(3)>>)>>)>>))
  /\ DeepEqual(ret.heap, ret.value,
               TObj(<<<<"b">>>>, <<TObj(<<<<"c">>>>, <<TArr(<<TNum(3)>>)>>)>>))
  /\ Len(ret.log) = 6

\* C12: the walk is depth-first post-order: the reviver is called on every
\* property of an object or array, and what it returns is applied to the
\* object, before the reviver is called on the object itself; every
\* property is presented once and the root holder last; and the reviver is
\* never called when the decode is incomplete.
C12_ReviverWalkIsPostOrder ==
  /\ (rpc = "done" /\ ~Complete(tokenize(call.json), Built)) =>
       (ret.log = << >> /\ ret.value = Undefined /\ ret.index = 0)
  /\ ReviverRan =>
       /\ \A i, j \in 1..Len(ret.log) :
            (ret.log[i].holder = ret.log[j].holder /\ ret.log[i].key = ret.log[j].key)
              => i = j
       /\ \A i \in 1..Len(ret.log) :
            \/ ret.log[i].holder = RootHolder /\ i = Len(ret.log)
            \/ /\ ret.log[i].holder \in DecodedObjects
               /\ HasProp(Built.heap[ret.log[i].holder], ret.log[i].key)
       /\ \A i \in 1..Len(ret.log) :
            IsRef(ret.log[i].arg) =>
              /\ \A p \in 1..Len(Built.heap[ret.log[i].arg.n].keys) :
                   \E j \in CallsOn(ret.log[i].arg.n, Built.heap[ret.log[i].arg.n].keys[p]) :
                     j < i /\ Applied(ret.log[i].node, ret.log[j])
              /\ \A j \in 1..Len(ret.log) :
                   ret.log[j].holder = ret.log[i].arg.n => j < i

\* C12 witness: [1,{"a":true},[null]] was walked: 1, then true and the
\* object that holds it, then null and the array that holds it, then the
\* outer array.
C12_Witness ==
  /\ rpc = "done" /\ call.reviver = "same" /\ kept = << >>
  /\ call.json = Stringify(TArr(<<TNum(1), TObj(<<<<"a">>>>, <<TBool(TRUE)>>),
                                  TArr(<<TNull>>)>>))
  /\ Len(ret.log) = 6
  /\ ret.log[2].arg = Bool(TRUE) /\ ret.log[3].arg = Ref(2)
  /\ ret.log[4].arg = Null /\ ret.log[5].arg = Ref(3)
  /\ ret.log[6].arg = Ref(1)

\* The call returned what a first call on the same text with the same
\* reviver returns, r being that.
SameAsFirstCall(r) ==
  /\ ret.isPair = r.isPair
  /\ ret.index = r.index
  /\ RebasedValue(ret.value, Len(kept)) = r.value
  /\ Rebased(ret.heap, Len(kept)) = r.heap
  /\ Len(ret.log) = Len(r.log)

\* C13: jsonRawDecode is deterministic and re-entrant: after any earlier
\* calls, those that returned incomplete and those made from inside a
\* reviver included, a call returns what a first call on the text returns;
\* lastIndex of the token regular expression is 0 when a call starts; and
\* the call changes no object that was there before it.
C13_DeterministicAndReentrant ==
  /\ lastIndex = 0
  /\ rpc = "done" =>
       /\ SubSeq(ret.heap, 1, Len(kept)) = kept
       /\ SameAsFirstCall(jsonRawDecodeReviver(<< >>, 0, call.json, call.reviver))

\* C13 witness: a call with the reviver that calls jsonRawDecode itself,
\* made while the objects of an earlier call are held, returned a value.
C13_Witness ==
  /\ rpc = "done" /\ call.reviver = "nested" /\ kept # << >>
  /\ ret.isPair /\ IsRef(ret.value) /\ Len(ret.log) > 1

(***************************************************************************)
(* Properties of malformed texts                                           *)
(***************************************************************************)
\* The documents that follow a stray bracket within MaxLen characters.
ShortDocs == {d \in Docs : Len(Stringify(d)) < MaxLen}

\* The stream is a close bracket followed by the complete document d.
StrayThen(d) ==
  docs = << >> /\ tail \in {<<"]">> \o Stringify(d), <<"}">> \o Stringify(d)}

\* C14: a close bracket before any open bracket is dropped: jsonDecode of
\* ']' + d or '}' + d returns the document d, on this and any later call.
C14_StrayCloseBracketDropped ==
  \A d \in ShortDocs :
    (StrayThen(d) /\ WholeStream /\ pc = "returned") => Delivers(<<d>>)

(***************************************************************************)
(* Properties of decycle with a replacer                                   *)
(***************************************************************************)
\* The positions derez was called at: the root, and every child of every
\* object or array it copied.
Visited ==
  {<< >>}
  \cup UNION {{Append(dec.log[i].pos, k) :
                 k \in 1..Len(KidKeys(dec.heap[dec.log[i].obj]))} :
                i \in {j \in 1..Len(dec.log) : dec.log[j].fresh}}

\* The calls of the replacer at the position pos.
CallsAt(pos) == {c \in 1..Len(dec.calls) : dec.calls[c].pos = pos}

InputKept(d) ==
  /\ SubSeq(d.heap, 1, Len(graph)) = graph
  /\ Reach(d.heap, d.value) \cap (1..Len(graph)) = {}

\* C19: decycle has no effect on its input and keeps nothing between calls:
\* after the call the objects and arrays of the input are as before, none of
\* them is part of the output, and a second call returns a structure
\* deep-equal to the first, made of other objects, its memo built anew.
C19_InputUntouchedAndNoMemory ==
  /\ dpc \in {"returned", "again"} => InputKept(dec)
  /\ dpc = "again" =>
       /\ InputKept(dec2)
       /\ SubSeq(dec2.heap, 1, Len(dec.heap)) = dec.heap
       /\ SameValue(dec.heap, dec.value, dec2.heap, dec2.value, MaxDepth)
       /\ Reach(dec2.heap, dec2.value) \cap Reach(dec.heap, dec.value) = {}
       /\ dec2.objects = dec.objects

\* C19 witness: an array that holds itself and an object that holds the
\* array was copied twice.
C19_Witness ==
  /\ dpc = "again" /\ replacer = "none"
  /\ graph = <<MakeNode(TRUE, <<Ref(1), Ref(2)>>), MakeNode(FALSE, <<Ref(1)>>)>>
  /\ dec.value = Ref(3) /\ dec2.value = Ref(7)
  /\ Len(dec2.log) = 4

(***************************************************************************)
(* Properties of src/actions/index.js                                      *)
(***************************************************************************)
RECURSIVE Chunks(_)
Chunks(ns) == IF ns = << >> THEN << >> ELSE Head(ns).response \o Chunks(Tail(ns))

ErrorFree == \A i \in 1..Len(notes) : ~notes[i].error

\* The handler of notification k dispatched the action a.
DispatchedBy(k, a) ==
  \E i \in 1..Len(dispatched) : dispatched[i].note = k /\ dispatched[i].action = a

\* C16: after k error-free notifications with payloads r1..rk, the k-th
\* notification dispatches, as BIOS_SET_READ_BUFFER, the buffer held at
\* subscription time followed by r1, r2, ..., rk in arrival order; no earlier
\* chunk is lost.
C16_DispatchedBufferHoldsEveryChunk ==
  (mpc = "monitoring" /\ notes # << >> /\ ErrorFree) =>
    DispatchedBy(Len(notes), biosSetReadBuffer(state.biosReadBuffer \o Chunks(notes)))

\* The read buffer the handler of notification k worked on.
ReadBufferOf(k) == state.biosReadBuffer \o notes[k].response

\* A complete JSON value begins the text.
HoldsCompleteValue(json) == jsonRawDecode(<< >>, json).isPair

\* C17: every error-free notification runs the decoder on the read buffer
\* and, when a complete JSON value is present, dispatches
\* BIOS_SET_READ_LAST_JSON with the first decoded value; the handler of no
\* notification ends in a fault.
C17_HandlerDecodesWithoutFault ==
  \A k \in 1..Len(notes) :
    ~notes[k].error =>
      /\ k \notin faults
      /\ HoldsCompleteValue(ReadBufferOf(k)) =>
           DispatchedBy(k, biosSetReadLastJson(jsonRawDecode(<< >>, ReadBufferOf(k)).value))

RECURSIVE Flatten(_)
Flatten(packets) ==
  IF packets = << >> THEN << >> ELSE Head(packets) \o Flatten(Tail(packets))

\* ceil(n / packetsize)
Ceil(n) == (n + packetsize - 1) \div packetsize

Writes(n) == IF n = 0 THEN 1 ELSE Ceil(n)

\* C18: writeCharacteristic writes packets of at most 20 bytes each, whose
\* concatenation in order is the byte sequence of the text; there are
\* ceil(length / 20) writes for a non-empty text and one empty packet for
\* the empty text; the loop ends for every length (while it runs, fewer
\* packets than that number were written, and each turn writes one).
C18_PacketsCoverTextInOrder ==
  /\ \A i \in 1..Len(written) : Len(written[i]) <= 20
  /\ wpc = "loop" => (offset = 20 * Len(written) /\ Len(written) < Writes(Len(text)))
  /\ wpc = "done" =>
       /\ Flatten(written) = [i \in 1..Len(text) |-> text[i] % 256]
       /\ Len(written) = Writes(Len(text))
       /\ (text = << >> => written = << << >> >>)

\* C18 witness: a text of 45 characters went out as two full packets and a
\* packet of five bytes.
C18_Witness ==
  /\ wpc = "done"
  /\ Len(text) > 2 * packetsize
  /\ Len(written) = 3
  /\ Len(written[1]) = packetsize
  /\ Len(written[3]) = Len(text) - 2 * packetsize

\* C20: for a non-empty array of byte values crcVal returns an integer in
\* 0..255.
C20_CrcValIsAByte ==
  (cpc = "returned" /\ array # << >>) => output \in 0..255

=============================================================================
